---------------------------- MODULE Spec2Model ----------------------------
(***************************************************************************)
(* A model of src/feed_builder.py: the sanitizer, the category discovery,  *)
(* the per-article extraction chains, the feed assembly and main's batch   *)
(* loop.                                                                    *)
(*                                                                         *)
(* Text is a sequence of one-character strings.  A few characters that     *)
(* cannot be written in a TLA+ string are named (CTRL, TAB, NBSP, EMDASH). *)
(* A URL is a sequence of tokens obtained by cutting the string at every   *)
(* "/" and keeping the slashes, so that Python's substring test, its       *)
(* split('/') and urljoin are computed on the tokens.                      *)
(***************************************************************************)
EXTENDS Integers, Sequences, FiniteSets, TLC

VARIABLES
    pc,       \* main's position: "start", "loop", "done", "crashed"
    found,    \* the set list_articles_from_categories returned
    fallback, \* TRUE when main took get_known_articles()
    urls,     \* main's urls list (after the fallback and the cap)
    pos,      \* number of loop iterations of main completed
    log,      \* per iteration: what extract_article met
    items,    \* main's items list
    feed,     \* the document build_feed wrote, None before
    builds,   \* number of calls of build_feed
    arg,      \* the argument of the function under test (function specs)
    res       \* its results so far, one per call

vars == <<pc, found, fallback, urls, pos, log, items, feed, builds, arg, res>>

mainVars == <<pc, found, fallback, urls, pos, log, items, feed, builds>>

\* An optional value is a sequence of no or one element: Python's None, a
\* tag that is not in the document, a result that is not there yet.
None == <<>>

Some(x) == <<x>>

\* the value of an optional that is there
The(opt) == opt[1]

\* main is not running: the state of the specifications of one function
Idle ==
    /\ pc = "idle" /\ found = {} /\ fallback = FALSE /\ urls = <<>>
    /\ pos = 0 /\ log = <<>> /\ items = <<>> /\ feed = None /\ builds = 0

----------------------------------------------------------------------------
(* Characters *)

\* U+0001, a code point outside the XML 1.0 ranges
CTRL == "U+0001"

TAB == "U+0009"

\* U+00A0, white space for str.split(), allowed in XML 1.0
NBSP == "U+00A0"

\* U+2014, the dash of the " - " site-name separator of line 159
EMDASH == "U+2014"

\* the characters _XML_INVALID_RE removes, among those of the model
XmlInvalid == {CTRL}

\* the characters str.split() and str.strip() treat as white space
Whitespace == {" ", TAB, NBSP}

\* html.entities.html5 restricted to the names over the letters of the
\* model's texts (a m p B H O S T); the values are named code points
Html5 ==
    (<<"a", "m", "p">> :> <<"&">>) @@
    (<<"a", "m", "p", ";">> :> <<"&">>) @@
    (<<"a", "p", ";">> :> <<"U+2248">>) @@
    (<<"m", "a", "p", ";">> :> <<"U+21A6">>) @@
    (<<"m", "p", ";">> :> <<"U+2213">>) @@
    (<<"p", "m", ";">> :> <<"U+00B1">>)

\* the characters that end a named character reference in html._charref
NameStop == {TAB, "\n", "\f", " ", "<", "&", "#", ";"}

Min(a, b) == IF a < b THEN a ELSE b

\* s[from:] of Python, from counted from 0
Drop(s, n) == SubSeq(s, n + 1, Len(s))

\* s[:n] of Python
Take(s, n) == SubSeq(s, 1, Min(n, Len(s)))

\* pattern in s
Contains(s, pattern) ==
    \/ pattern = <<>>
    \/ \E k \in 0..(Len(s) - Len(pattern)) :
          /\ s[k + 1] = pattern[1]
          /\ SubSeq(s, k + 1, k + Len(pattern)) = pattern

\* s.find(pattern), for a pattern that s contains
Find(s, pattern) ==
    CHOOSE k \in 0..(Len(s) - Len(pattern)) :
        /\ SubSeq(s, k + 1, k + Len(pattern)) = pattern
        /\ \A j \in 0..(k - 1) : SubSeq(s, j + 1, j + Len(pattern)) # pattern

\* s.startswith(prefix)
StartsWith(s, prefix) ==
    Len(prefix) <= Len(s) /\ SubSeq(s, 1, Len(prefix)) = prefix

\* s.strip()
RECURSIVE LStrip(_)
LStrip(s) ==
    IF s # <<>> /\ Head(s) \in Whitespace THEN LStrip(Tail(s)) ELSE s

RECURSIVE RStrip(_)
RStrip(s) ==
    IF s # <<>> /\ s[Len(s)] \in Whitespace
    THEN RStrip(SubSeq(s, 1, Len(s) - 1))
    ELSE s

Strip(s) == RStrip(LStrip(s))

\* "".join(ss)
RECURSIVE Flatten(_)
Flatten(ss) == IF ss = <<>> THEN <<>> ELSE Head(ss) \o Flatten(Tail(ss))

----------------------------------------------------------------------------
(* sanitize_xml *)

\* the length of the longest prefix of s, at most 32 characters, that holds
\* no character of NameStop: [^\t\n\f <&#;]{1,32}
RECURSIVE NameRun(_, _)
NameRun(s, n) ==
    IF n < 32 /\ n < Len(s) /\ s[n + 1] \notin NameStop
    THEN NameRun(s, n + 1)
    ELSE n

\* the longest x in 2..len-1 with name[:x] in html5, 0 when there is none
RECURSIVE LongestPrefix(_, _)
LongestPrefix(name, x) ==
    IF x < 2 THEN 0
    ELSE IF Take(name, x) \in DOMAIN Html5 THEN x
    ELSE LongestPrefix(name, x - 1)

\* html._replace_charref for a named reference
ReplaceCharref(name) ==
    IF name \in DOMAIN Html5 THEN Html5[name]
    ELSE LET x == LongestPrefix(name, Len(name) - 1)
         IN  IF x > 0 THEN Html5[Take(name, x)] \o Drop(name, x)
             ELSE <<"&">> \o name

\* html.unescape: one left-to-right pass, the replacement is not rescanned
RECURSIVE Unescape(_)
Unescape(s) ==
    IF s = <<>> THEN <<>>
    ELSE IF Head(s) # "&" THEN <<Head(s)>> \o Unescape(Tail(s))
    ELSE LET rest == Tail(s)
             n == NameRun(rest, 0)
             m == IF n < Len(rest) /\ rest[n + 1] = ";" THEN n + 1 ELSE n
         IN  IF n = 0 THEN <<"&">> \o Unescape(rest)
             ELSE ReplaceCharref(Take(rest, m)) \o Unescape(Drop(rest, m))

\* _XML_INVALID_RE.sub("", text)
StripInvalid(s) == SelectSeq(s, LAMBDA c : c \notin XmlInvalid)

\* ' '.join(text.split())
RECURSIVE JoinSplit(_, _, _)
JoinSplit(s, acc, gap) ==
    IF s = <<>> THEN acc
    ELSE IF Head(s) \in Whitespace
         THEN JoinSplit(Tail(s), acc, acc # <<>>)
         ELSE JoinSplit(Tail(s),
                        IF gap THEN acc \o <<" ", Head(s)>>
                               ELSE acc \o <<Head(s)>>,
                        FALSE)

\* the steps of sanitize_xml with the last two exchanged
sanitize_xml_reordered(text) ==
    StripInvalid(JoinSplit(Unescape(text), <<>>, FALSE))

\* lines 31-35
sanitize_xml_once(text) == JoinSplit(StripInvalid(Unescape(text)), <<>>, FALSE)

sanitize_xml(text) ==
    IF text = <<>> THEN <<>>
    ELSE sanitize_xml_once(text)

----------------------------------------------------------------------------
(* URLs and list_articles_from_categories *)

Site == <<"https:", "/", "/", "www.aboutamazon.it">>

BASE_URL == Site

BASE_LIST == Site \o <<"/", "notizie">>

categories ==
    << BASE_LIST \o <<"/", "company-news">>,
       BASE_LIST \o <<"/", "piccole-e-medie-imprese">>,
       BASE_LIST \o <<"/", "lavorare-ad-amazon">>,
       BASE_LIST \o <<"/", "sostenibilita">>,
       BASE_LIST \o <<"/", "dispositivi-amazon">>,
       BASE_LIST \o <<"/", "nella-comunita">>,
       BASE_LIST \o <<"/", "public-policy">> >>

\* the first selector tests the href, the others the place of the anchor
HrefSelector == "a[href*=/notizie/]"

selectors ==
    << HrefSelector, ".article-title a", ".news-item a", "h2 a", "h3 a",
       ".post-title a" >>

\* the URL schemes of the model; urljoin returns such an href unchanged
Schemes == {"https:", "http:", "javascript:", "mailto:"}

\* urljoin(base, href) for a base without a path: an href with a scheme is
\* kept, "//host/.." takes the base's scheme, "/path" and "path" the base's
\* scheme and host
urljoin(base, href) ==
    IF href = <<>> THEN base
    ELSE IF Head(href) \in Schemes THEN href
    ELSE IF StartsWith(href, <<"/", "/">>) THEN <<Head(base)>> \o href
    ELSE IF Head(href) = "/" THEN base \o href
    ELSE base \o <<"/">> \o href

\* len(url.split('/'))
SplitCount(url) == Len(SelectSeq(url, LAMBDA t : t = "/")) + 1

\* soup.select(selector) holds the anchor
Selects(selector, anchor) ==
    IF selector = HrefSelector
    THEN Contains(anchor.href, <<"/", "notizie", "/">>)
    ELSE selector \in anchor.place

skip_patterns(category_url) ==
    { <<"/", "tag", "/">>, <<"/", "search">>, <<"/", "categoria", "/">>,
      <<"/", "page", "/">>, category_url, BASE_LIST }

\* lines 81-95 for one link: the set of URLs it adds to urls
LinkUrls(category_url, link) ==
    LET href == Strip(link.href)
        full_url == urljoin(BASE_URL, href)
    IN  IF href = <<>> \/ StartsWith(href, <<"#">>) THEN {}
        ELSE IF \E pattern \in skip_patterns(category_url) :
                    Contains(full_url, pattern) THEN {}
        ELSE IF Contains(full_url, <<"/", "notizie", "/">>)
                /\ SplitCount(full_url) >= 5 THEN {full_url}
        ELSE {}

\* pages[c] is what fetch(categories[c]) met: the anchors of the page in
\* document order, or a failure, when fetch raised
Page(anchors) == [ok |-> TRUE, anchors |-> anchors]

FetchError == [ok |-> FALSE, anchors |-> <<>>]

list_articles_from_categories(pages) ==
    UNION { UNION { LinkUrls(categories[c], pages[c].anchors[k]) :
                      k \in { j \in DOMAIN pages[c].anchors :
                                \E n \in DOMAIN selectors :
                                    Selects(selectors[n], pages[c].anchors[j]) } } :
              c \in { d \in DOMAIN categories : pages[d].ok } }

get_known_articles ==
    << BASE_LIST \o <<"/", "company-news", "/",
           "amazon-compie-15-anni-italia-tre-giorni-offerte-esclusive">>,
       BASE_LIST \o <<"/", "sostenibilita", "/",
           "amazon-lancia-per-la-prima-volta-i-second-chance-deal-days">>,
       BASE_LIST \o <<"/", "sostenibilita", "/",
           "amazon-consegne-in-giornata-veicoli-elettrici-prima-volta-europa">>,
       BASE_LIST \o <<"/", "dispositivi-amazon", "/",
           "amazon-amplia-la-famiglia-kindle-colorsoft-con-un-modello-da-16-gb">>,
       BASE_LIST \o <<"/", "public-policy", "/",
           "amazon-e-tra-i-50-maggiori-contribuenti-fiscali-in-italia">>,
       BASE_LIST \o <<"/", "nella-comunita", "/",
           "talento-e-passione-stem-vincitrici-amazon-women-in-innovation-2025">>,
       BASE_LIST \o <<"/", "sostenibilita", "/",
           "il-primo-raccolto-nella-piantagione-di-alghe-marine-nel-mare-del-nord-finanziata-da-amazon">> >>

----------------------------------------------------------------------------
(* Texts of the program *)

\* the characters of each token of the URLs that main processes
Spell ==
    ("https:" :>
        <<"h", "t", "t", "p", "s", ":">>) @@
    ("http:" :>
        <<"h", "t", "t", "p", ":">>) @@
    ("/" :>
        <<"/">>) @@
    ("www.aboutamazon.it" :>
        <<"w", "w", "w", ".", "a", "b", "o", "u", "t", "a", "m", "a", "z", "o",
        "n", ".", "i", "t">>) @@
    ("www.aboutamazon.com" :>
        <<"w", "w", "w", ".", "a", "b", "o", "u", "t", "a", "m", "a", "z", "o",
        "n", ".", "c", "o", "m">>) @@
    ("notizie" :>
        <<"n", "o", "t", "i", "z", "i", "e">>) @@
    ("company-news" :>
        <<"c", "o", "m", "p", "a", "n", "y", "-", "n", "e", "w", "s">>) @@
    ("sostenibilita" :>
        <<"s", "o", "s", "t", "e", "n", "i", "b", "i", "l", "i", "t", "a">>) @@
    ("dispositivi-amazon" :>
        <<"d", "i", "s", "p", "o", "s", "i", "t", "i", "v", "i", "-", "a", "m",
        "a", "z", "o", "n">>) @@
    ("public-policy" :>
        <<"p", "u", "b", "l", "i", "c", "-", "p", "o", "l", "i", "c", "y">>) @@
    ("nella-comunita" :>
        <<"n", "e", "l", "l", "a", "-", "c", "o", "m", "u", "n", "i", "t", "a">>) @@
    ("slug-c" :>
        <<"s", "l", "u", "g", "-", "c">>) @@
    ("slug-d" :>
        <<"s", "l", "u", "g", "-", "d">>) @@
    ("amazon-compie-15-anni-italia-tre-giorni-offerte-esclusive" :>
        <<"a", "m", "a", "z", "o", "n", "-", "c", "o", "m", "p", "i", "e", "-",
        "1", "5", "-", "a", "n", "n", "i", "-", "i", "t", "a", "l", "i", "a",
        "-", "t", "r", "e", "-", "g", "i", "o", "r", "n", "i", "-", "o", "f",
        "f", "e", "r", "t", "e", "-", "e", "s", "c", "l", "u", "s", "i", "v",
        "e">>) @@
    ("amazon-lancia-per-la-prima-volta-i-second-chance-deal-days" :>
        <<"a", "m", "a", "z", "o", "n", "-", "l", "a", "n", "c", "i", "a", "-",
        "p", "e", "r", "-", "l", "a", "-", "p", "r", "i", "m", "a", "-", "v",
        "o", "l", "t", "a", "-", "i", "-", "s", "e", "c", "o", "n", "d", "-",
        "c", "h", "a", "n", "c", "e", "-", "d", "e", "a", "l", "-", "d", "a",
        "y", "s">>) @@
    ("amazon-consegne-in-giornata-veicoli-elettrici-prima-volta-europa" :>
        <<"a", "m", "a", "z", "o", "n", "-", "c", "o", "n", "s", "e", "g", "n",
        "e", "-", "i", "n", "-", "g", "i", "o", "r", "n", "a", "t", "a", "-",
        "v", "e", "i", "c", "o", "l", "i", "-", "e", "l", "e", "t", "t", "r",
        "i", "c", "i", "-", "p", "r", "i", "m", "a", "-", "v", "o", "l", "t",
        "a", "-", "e", "u", "r", "o", "p", "a">>) @@
    ("amazon-amplia-la-famiglia-kindle-colorsoft-con-un-modello-da-16-gb" :>
        <<"a", "m", "a", "z", "o", "n", "-", "a", "m", "p", "l", "i", "a", "-",
        "l", "a", "-", "f", "a", "m", "i", "g", "l", "i", "a", "-", "k", "i",
        "n", "d", "l", "e", "-", "c", "o", "l", "o", "r", "s", "o", "f", "t",
        "-", "c", "o", "n", "-", "u", "n", "-", "m", "o", "d", "e", "l", "l",
        "o", "-", "d", "a", "-", "1", "6", "-", "g", "b">>) @@
    ("amazon-e-tra-i-50-maggiori-contribuenti-fiscali-in-italia" :>
        <<"a", "m", "a", "z", "o", "n", "-", "e", "-", "t", "r", "a", "-", "i",
        "-", "5", "0", "-", "m", "a", "g", "g", "i", "o", "r", "i", "-", "c",
        "o", "n", "t", "r", "i", "b", "u", "e", "n", "t", "i", "-", "f", "i",
        "s", "c", "a", "l", "i", "-", "i", "n", "-", "i", "t", "a", "l", "i",
        "a">>) @@
    ("talento-e-passione-stem-vincitrici-amazon-women-in-innovation-2025" :>
        <<"t", "a", "l", "e", "n", "t", "o", "-", "e", "-", "p", "a", "s", "s",
        "i", "o", "n", "e", "-", "s", "t", "e", "m", "-", "v", "i", "n", "c",
        "i", "t", "r", "i", "c", "i", "-", "a", "m", "a", "z", "o", "n", "-",
        "w", "o", "m", "e", "n", "-", "i", "n", "-", "i", "n", "n", "o", "v",
        "a", "t", "i", "o", "n", "-", "2", "0", "2", "5">>) @@
    ("il-primo-raccolto-nella-piantagione-di-alghe-marine-nel-mare-del-nord-finanziata-da-amazon" :>
        <<"i", "l", "-", "p", "r", "i", "m", "o", "-", "r", "a", "c", "c", "o",
        "l", "t", "o", "-", "n", "e", "l", "l", "a", "-", "p", "i", "a", "n",
        "t", "a", "g", "i", "o", "n", "e", "-", "d", "i", "-", "a", "l", "g",
        "h", "e", "-", "m", "a", "r", "i", "n", "e", "-", "n", "e", "l", "-",
        "m", "a", "r", "e", "-", "d", "e", "l", "-", "n", "o", "r", "d", "-",
        "f", "i", "n", "a", "n", "z", "i", "a", "t", "a", "-", "d", "a", "-",
        "a", "m", "a", "z", "o", "n">>)

\* the string of a URL
UrlText(url) == Flatten([k \in DOMAIN url |-> Spell[url[k]]])

\* line 163
PlaceholderTitle ==
    <<"A", "r", "t", "i", "c", "o", "l", "o", " ", "d", "a", " ", "A", "b",
        "o", "u", "t", " ", "A", "m", "a", "z", "o", "n", " ", "I", "t", "a",
        "l", "i", "a">>

\* line 159
Separator == <<" ", EMDASH, " ">>

\* str(n) for the numbers of images of the model
Digits(n) == <<"0", "1", "2">>[n + 1]

\* html.escape(s), quote = True
EscapeChar(c) ==
    CASE c = "&" -> <<"&", "a", "m", "p", ";">>
      [] c = "<" -> <<"&", "l", "t", ";">>
      [] c = ">" -> <<"&", "g", "t", ";">>
      [] c = "\"" -> <<"&", "q", "u", "o", "t", ";">>
      [] c = "'" -> <<"&", "#", "x", "2", "7", ";">>
      [] OTHER -> <<c>>

\* by halves, so that the depth of the evaluation is logarithmic in len(s)
RECURSIVE Escape(_)
Escape(s) ==
    IF Len(s) = 0 THEN <<>>
    ELSE IF Len(s) = 1 THEN EscapeChar(s[1])
    ELSE Escape(SubSeq(s, 1, Len(s) \div 2))
         \o Escape(SubSeq(s, Len(s) \div 2 + 1, Len(s)))

----------------------------------------------------------------------------
(* extract_article *)

(***************************************************************************)
(* A fetched document, as the queries of extract_article see it:           *)
(*   h1, title          the text of the first such element, None without   *)
(*   og_title, twitter_title   the content of the meta that soup.find      *)
(*                      returns for the property, None without the meta or *)
(*                      without its content attribute                      *)
(*   images             the list that the image chain (lines 166-260)      *)
(*                      computes from the document                         *)
(*   extracted          what trafilatura.extract returns                   *)
(*   article_elem       the first article / main / div.content element:    *)
(*                      its text outside the nav, footer, aside, header,   *)
(*                      script and style elements below it                 *)
(*   dates              per entry of date_selectors, the matching tags in  *)
(*                      document order; raw is the datetime or content     *)
(*                      attribute, noise tells that the tag lies below one *)
(*                      of the elements that line 272 removes              *)
(* A date string is the instant dateutil reads in it (local, in hours) and *)
(* its offset (tz, None when the string has none); ok is FALSE when        *)
(* dateparser.parse raises.                                                *)
(***************************************************************************)
DateString(local, tz) == [ok |-> TRUE, local |-> local, tz |-> tz]

Unparseable == [ok |-> FALSE, local |-> 0, tz |-> None]

DateTag(raw, noise) == [raw |-> raw, noise |-> noise]

\* what fetch(url) met: the document, or a failure when requests raised
Fetched(doc) == [ok |-> TRUE, doc |-> Some(doc)]

TransportError == [ok |-> FALSE, doc |-> None]

\* lines 137-163
ExtractTitle(doc) ==
    LET t1 == IF doc.h1 # None THEN sanitize_xml(Strip(The(doc.h1))) ELSE <<>>
        \* the loop of line 147 ends at the first meta that has a content
        meta == IF doc.og_title # None /\ The(doc.og_title) # <<>>
                THEN doc.og_title
                ELSE IF doc.twitter_title # None /\ The(doc.twitter_title) # <<>>
                THEN doc.twitter_title
                ELSE None
        t2 == IF t1 # <<>> THEN t1
              ELSE IF meta # None THEN sanitize_xml(Strip(The(meta)))
              ELSE <<>>
        tag == IF doc.title # None THEN sanitize_xml(Strip(The(doc.title)))
               ELSE <<>>
        t3 == IF t2 # <<>> THEN t2
              ELSE IF Contains(tag, Separator) THEN Take(tag, Find(tag, Separator))
              ELSE tag
    IN  IF t3 # <<>> THEN t3 ELSE PlaceholderTitle

\* lines 268-272: the fallback runs, and removes the noise of article_elem
NoiseRemoved(doc) ==
    (doc.extracted = None \/ The(doc.extracted) = <<>>) /\ doc.article_elem # None

\* lines 263-273
ExtractBody(doc) ==
    IF doc.extracted # None /\ The(doc.extracted) # <<>>
    THEN sanitize_xml(Strip(The(doc.extracted)))
    ELSE IF doc.article_elem # None
    THEN sanitize_xml(Strip(The(doc.article_elem).text))
    ELSE <<>>

\* lines 275-286
ExtractContent(url, doc) ==
    LET images == doc.images
        debug_info ==
            <<"[", "D", "E", "B", "U", "G", ":", " ", "F", "o", "u", "n", "d", " ">>
            \o Digits(Len(images)) \o <<" ", "i", "m", "a", "g", "e", "s", " ", "f", "o", "r", " ">>
            \o UrlText(url) \o <<"]", " ">>
        img_html ==
            <<"<", "i", "m", "g", " ", "s", "r", "c", "=", "\"">>
            \o Escape(images[1].url) \o <<"\"", " ", "a", "l", "t", "=", "\"">>
            \o Escape(images[1].alt)
            \o <<"\"", " ", "s", "t", "y", "l", "e", "=", "\"", "m", "a", "x", "-", "w",
        "i", "d", "t", "h", ":", "1", "0", "0", "%", ";", "h", "e", "i", "g",
        "h", "t", ":", "a", "u", "t", "o", ";", "m", "a", "r", "g", "i", "n",
        "-", "b", "o", "t", "t", "o", "m", ":", "1", "5", "p", "x", ";", "\"",
        ">", "<", "b", "r", ">">>
        main_image ==
            <<"M", "a", "i", "n", " ", "i", "m", "a", "g", "e", ":", " ">>
            \o Take(images[1].url, 100) \o <<".", ".", ".", " ">>
        content == IF images # <<>>
                   THEN img_html \o debug_info \o main_image \o ExtractBody(doc)
                   ELSE debug_info \o ExtractBody(doc)
    IN  IF content = <<>>
        THEN <<"L", "e", "g", "g", "i", " ", "l", "'", "a", "r", "t", "i", "c", "o",
        "l", "o", " ", "c", "o", "m", "p", "l", "e", "t", "o", " ", "s", "u",
        ":", " ">>
             \o UrlText(url)
        ELSE content

\* soup.find(*date_selectors[k]) at line 299, after the body was extracted
FindDateTag(doc, k) ==
    LET left == IF NoiseRemoved(doc)
                THEN SelectSeq(doc.dates[k], LAMBDA tag : ~tag.noise)
                ELSE doc.dates[k]
    IN  IF left = <<>> THEN None ELSE Some(left[1])

\* lines 298-308, from the k-th selector on: the date string that parsed
RECURSIVE ParsedDate(_, _)
ParsedDate(doc, k) ==
    IF k > Len(doc.dates) THEN None
    ELSE LET tag == FindDateTag(doc, k)
         IN  IF tag # None /\ The(tag).raw # None /\ The(The(tag).raw).ok
             THEN The(tag).raw
             ELSE ParsedDate(doc, k + 1)

\* lines 311-316
ToUtc(parsed, now) ==
    IF parsed = None THEN now
    ELSE IF The(parsed).tz = None THEN The(parsed).local
    ELSE The(parsed).local - The(The(parsed).tz)

ExtractDate(doc, now) == ToUtc(ParsedDate(doc, 1), now)

\* lines 122-324, the body of the try: fetch raises, or the article is built
TryExtract(url, fetched, now) ==
    IF ~fetched.ok THEN [raised |-> TRUE, article |-> None]
    ELSE LET doc == The(fetched.doc)
         IN  [ raised |-> FALSE,
               article |-> Some([ title |-> ExtractTitle(doc),
                                  link |-> url,
                                  content |-> ExtractContent(url, doc),
                                  pub_dt |-> ExtractDate(doc, now),
                                  images |-> doc.images ]) ]

\* the function without its except clause
extract_article_uncaught(url, fetched, now) == TryExtract(url, fetched, now)

\* lines 119-328: the except clause of line 326 turns an exception into the
\* result None
extract_article(url, fetched, now) ==
    LET try == TryExtract(url, fetched, now)
    IN  IF try.raised THEN [raised |-> FALSE, article |-> None] ELSE try

----------------------------------------------------------------------------
(* The extraction under test: extract_article on fixture documents *)

\* the most time elements of a fixture document
MaxTimeTags == 2

\* the instant of the extraction, datetime.now(timezone.utc) of line 312
FixtureNow == 99

BaseDoc ==
    [ h1 |-> Some(<<"H">>), og_title |-> None, twitter_title |-> None,
      title |-> None, images |-> <<>>, extracted |-> Some(<<"B", "a">>),
      article_elem |-> None, dates |-> <<<<>>, <<>>, <<>>, <<>>>> ]

\* a candidate that is there and sanitizes to nothing: white space, or an
\* invalid character
TitleDocs ==
    { [BaseDoc EXCEPT !.h1 = h, !.og_title = og, !.twitter_title = tw,
                      !.title = ti] :
        h \in {None, Some(<<" ">>), Some(<<CTRL>>), Some(<<"H", TAB, "H">>)},
        og \in {None, Some(<<>>), Some(<<" ">>), Some(<<"O">>)},
        tw \in {None, Some(<<CTRL>>), Some(<<"T">>)},
        ti \in {None, Some(<<" ">>), Some(<<"B", " ", EMDASH, " ", "S">>),
                Some(<<"a", "&", "a", "m", "p", ";", "p">>)} }

\* the meta of the k-th date selector: none, one that does not parse, one
\* that parses, one that parses and lies in the noise of article_elem
MetaDate(k) ==
    IF k = 1 THEN DateString(10, Some(2))
    ELSE IF k = 2 THEN DateString(20, None)
    ELSE DateString(30, Some(0 - 1))

MetaTags(k) ==
    { <<>>, <<DateTag(Some(Unparseable), FALSE)>>,
      <<DateTag(Some(MetaDate(k)), FALSE)>>,
      <<DateTag(Some(MetaDate(k)), TRUE)>> }

TimeTag ==
    { DateTag(raw, noise) :
        raw \in {Some(Unparseable), Some(DateString(40, None)),
                 Some(DateString(50, Some(5)))},
        noise \in BOOLEAN }

TimeTags == UNION { [1..n -> TimeTag] : n \in 0..MaxTimeTags }

DateDocs ==
    { [BaseDoc EXCEPT !.extracted = ex, !.article_elem = el,
                      !.dates = <<m1, m2, m3, ti>>] :
        ex \in {None, Some(<<"B", "a">>)},
        el \in {None, Some([text |-> <<"B", " ", "p">>]), Some([text |-> <<>>])},
        m1 \in MetaTags(1), m2 \in MetaTags(2), m3 \in MetaTags(3),
        ti \in TimeTags }

\* the wholly empty document
EmptyDoc ==
    [ h1 |-> None, og_title |-> None, twitter_title |-> None, title |-> None,
      images |-> <<>>, extracted |-> None, article_elem |-> None,
      dates |-> <<<<>>, <<>>, <<>>, <<>>>> ]

ExtractInputs ==
    { [url |-> get_known_articles[1], fetched |-> f, now |-> FixtureNow] :
        f \in {TransportError}
              \cup { Fetched(d) : d \in TitleDocs \cup DateDocs \cup {EmptyDoc} } }

InitExtract ==
    /\ Idle
    /\ arg \in ExtractInputs
    /\ res = None

ApplyExtract ==
    /\ res = None
    /\ res' = Some(extract_article(arg.url, arg.fetched, arg.now))
    /\ UNCHANGED <<mainVars, arg>>

SpecExtract == InitExtract /\ [][ApplyExtract]_vars

\* the article that extract_article returned
Extracted == res # None /\ The(res).article # None

Article == The(The(res).article)

\* the title candidates of a document in the priority order of the claim,
\* each sanitized, the <title> one cut at the separator
TitleCandidates(doc) ==
    LET cut(t) == IF Contains(t, Separator) THEN Take(t, Find(t, Separator))
                  ELSE t
        san(opt) == IF opt = None THEN <<>> ELSE sanitize_xml(Strip(The(opt)))
    IN  << san(doc.h1), san(doc.og_title), san(doc.twitter_title),
           cut(san(doc.title)) >>

\* C9: the title is the first candidate, in the order h1, og:title,
\* twitter:title, <title>, whose sanitized value is not empty (a candidate that
\* sanitizes to nothing is passed over), and the placeholder when there is none.
C9_FirstNonEmptyCandidate ==
    Extracted =>
        LET cands == TitleCandidates(The(arg.fetched.doc))
            good == { k \in DOMAIN cands : cands[k] # <<>> }
        IN  Article.title =
                IF good = {} THEN PlaceholderTitle
                ELSE cands[CHOOSE k \in good : \A j \in good : k <= j]

\* the date the claim reads in the fetched document: the first selector, in
\* order, whose first tag in the document has a date string that parses
RECURSIVE DocumentDate(_, _)
DocumentDate(doc, k) ==
    IF k > Len(doc.dates) THEN None
    ELSE IF /\ doc.dates[k] # <<>>
            /\ doc.dates[k][1].raw # None
            /\ The(doc.dates[k][1].raw).ok
    THEN doc.dates[k][1].raw
    ELSE DocumentDate(doc, k + 1)

\* C10: pub_dt is the UTC value of the first date location of the fetched
\* document that exists and parses, and now only when none does, whichever
\* strategy produced the body.
C10_DateFromDocumentAlone ==
    Extracted =>
        Article.pub_dt = ToUtc(DocumentDate(The(arg.fetched.doc), 1), arg.now)

----------------------------------------------------------------------------
(* build_feed *)

\* line 365
DescriptionCap == 50000

\* lines 364-375: the string handed to fe.description
Description(item) ==
    LET content == item.content
        description == IF Len(content) > DescriptionCap
                       THEN Take(content, DescriptionCap) \o <<".", ".", ".">>
                       ELSE content
    IN  IF Contains(description, <<"<", "i", "m", "g">>)
           \/ Contains(description, <<"<", "b", "r", ">">>)
        THEN description
        ELSE <<"<", "p", ">">> \o Escape(description) \o <<"<", "/", "p", ">">>

\* what requests.head met at line 387: status 200, another status, or an
\* exception (a timeout, a refused connection), which line 392 swallows
ProbeOutcomes == {"200", "status", "raised"}

\* lines 355-394 for one item; probe is the outcome of its HEAD request,
\* "none" for an item without image
Entry(item, probe) ==
    [ guid |-> item.link,
      title |-> item.title,
      link |-> item.link,
      description |-> Description(item),
      pubDate |-> item.pub_dt,
      enclosure |-> IF item.images # <<>> /\ probe = "200"
                    THEN Some(item.images[1].url)
                    ELSE None ]

\* fg.add_entry() of line 355: feedgen's add_entry(feedEntry=None,
\* order='prepend') inserts the new entry at the head of the feed's entries
add_entry(entries, entry) == <<entry>> \o entries

\* lines 354-394: the entries of the generator after the loop over the first
\* n items
RECURSIVE FeedEntries(_, _, _)
FeedEntries(its, probes, n) ==
    IF n = 0 THEN <<>>
    ELSE add_entry(FeedEntries(its, probes, n - 1), Entry(its[n], probes[n]))

\* lines 330-408: the document written to out_path, as its entries in the
\* order fg.rss_str serializes them, with the outcomes of the HEAD requests
build_feed(its, probes) ==
    [ entries |-> FeedEntries(its, probes, Len(its)), probes |-> probes ]

\* the outcomes the HEAD requests of a list of items can have
Probes(its) ==
    LET withImage == { k \in DOMAIN its : its[k].images # <<>> }
    IN  { [k \in DOMAIN its |-> IF k \in withImage THEN pr[k] ELSE "none"] :
            pr \in [withImage -> ProbeOutcomes] }

----------------------------------------------------------------------------
(* The discovery under test: list_articles_from_categories on fixture pages *)

\* the longest fixture page, in anchors
MaxAnchors == 2

\* The anchors of the fixture pages.  kind is the fixture's label, which no
\* operator of the program reads.
Anchor(kind, href, place) == [kind |-> kind, href |-> href, place |-> place]

ArticleAnchors ==
    { Anchor("article",
             <<"/", "notizie", "/", "company-news", "/", "slug-a">>, {"h2 a"}),
      Anchor("article",
             Site \o <<"/", "notizie", "/", "sostenibilita", "/", "slug-b">>, {}) }

OtherAnchors ==
    { Anchor("tag", <<"/", "notizie", "/", "tag", "/", "kindle">>, {}),
      Anchor("search", <<"/", "search", "?q=kindle">>, {".news-item a"}),
      Anchor("category", <<"/", "notizie", "/", "company-news">>, {"h3 a"}),
      Anchor("pagination",
             <<"/", "notizie", "/", "company-news", "/", "page", "/", "2">>, {}),
      Anchor("fragment", <<"#", "top">>, {"h2 a"}) }

\* an article of the site linked with the http scheme
HttpAnchor ==
    Anchor("http",
           <<"http:", "/", "/", "www.aboutamazon.it", "/", "notizie", "/",
             "company-news", "/", "slug-c">>, {".post-title a"})

\* an article of the sister site
SisterAnchor ==
    Anchor("sister",
           <<"https:", "/", "/", "www.aboutamazon.com", "/", "notizie", "/",
             "company-news", "/", "slug-d">>, {})

FixtureAnchors == ArticleAnchors \cup OtherAnchors \cup {HttpAnchor}

FixturePages ==
    { Page(as) : as \in UNION { [1..n -> FixtureAnchors] : n \in 0..MaxAnchors } }

\* one category page is served, the other fetches fail; or all serve the same
DiscoverInputs ==
    { [c \in DOMAIN categories |-> IF c = live THEN page ELSE FetchError] :
        live \in DOMAIN categories, page \in FixturePages }
    \cup { [c \in DOMAIN categories |-> page] : page \in FixturePages }

InitDiscover ==
    /\ Idle
    /\ arg \in DiscoverInputs
    /\ res = None

ApplyDiscover ==
    /\ res = None
    /\ res' = Some(list_articles_from_categories(arg))
    /\ UNCHANGED <<mainVars, arg>>

SpecDiscover == InitDiscover /\ [][ApplyDiscover]_vars

\* the anchors of the pages that were served
ServedAnchors(pages) ==
    UNION { { pages[c].anchors[k] : k \in DOMAIN pages[c].anchors } :
              c \in { d \in DOMAIN categories : pages[d].ok } }

\* C3: on pages made of anchors to single articles of the site and of anchors
\* to tag, search, category and pagination pages, the function returns exactly
\* the article URLs, each once.
C3_ExactlyTheArticles ==
    ( /\ res # None
      /\ \A a \in ServedAnchors(arg) :
            a.kind \in {"article", "tag", "search", "category", "pagination"} )
    => The(res) = { urljoin(BASE_URL, a.href) :
                 a \in { b \in ServedAnchors(arg) : b.kind = "article" } }

----------------------------------------------------------------------------
(* main *)

\* line 423
ItemCap == 30

\* the instant main starts at, in hours; time.sleep(1.0) of line 439 lets the
\* clock advance between two extractions
StartTime == 100

Now(n) == StartTime + n

\* items.sort(key=pub_dt, reverse=True): stable, so x goes behind the items
\* whose pub_dt is not smaller
RECURSIVE SortNewestFirst(_)
SortNewestFirst(its) ==
    IF its = <<>> THEN <<>>
    ELSE LET x == its[Len(its)]
             sorted == SortNewestFirst(SubSeq(its, 1, Len(its) - 1))
             ahead == Cardinality({ k \in DOMAIN sorted :
                                      sorted[k].pub_dt >= x.pub_dt })
         IN  SubSeq(sorted, 1, ahead) \o <<x>>
             \o SubSeq(sorted, ahead + 1, Len(sorted))

\* list(urls) of line 105: the members of the set in any order
Orderings(set) ==
    { order \in [1..Cardinality(set) -> set] :
        \A j, k \in DOMAIN order : order[j] = order[k] => j = k }

\* lines 418-420, without the fallback
UrlsAsListed(listed) == listed

\* lines 418-420
UrlsOrKnown(listed) == IF listed = <<>> THEN get_known_articles ELSE listed

\* line 441, without the test
AlwaysPublish(its) == FALSE

\* line 441
NothingToPublish(its) == its = <<>>

\* line 433
Usable(article) ==
    article # None /\ The(article).title # <<>> /\ The(article).content # <<>>

\* The web main runs against: what the category pages serve.
OnSitePage ==
    Page(<< Anchor("article",
                   <<"/", "notizie", "/", "company-news", "/", "slug-a">>,
                   {"h2 a"}),
            Anchor("category", <<"/", "notizie", "/", "company-news">>,
                   {"h3 a"}) >>)

MainWebs ==
    { [c \in DOMAIN categories |-> FetchError],
      [c \in DOMAIN categories |-> OnSitePage],
      [c \in DOMAIN categories |->
          IF c = 1 THEN Page(<<HttpAnchor, HttpAnchor>>) ELSE OnSitePage],
      [c \in DOMAIN categories |->
          IF c = 2 THEN Page(<<SisterAnchor, HttpAnchor>>) ELSE FetchError] }

\* The documents the article URLs serve.
ImageDoc ==
    [ h1 |-> Some(<<"H">>), og_title |-> Some(<<"O">>), twitter_title |-> None,
      title |-> None,
      images |-> << [url |-> <<"h", "t", "t", "p", ":", "/", "/", "i", "/", "a", "&", "b">>,
                     alt |-> <<"I", "m", "m", "a", "g", "i", "n", "e", " ", "a", "r", "t", "i", "c",
        "o", "l", "o">>] >>,
      extracted |-> Some(<<"B", "a">>), article_elem |-> None,
      dates |-> << <<DateTag(Some(DateString(10, Some(2))), FALSE)>>,
                   <<>>, <<>>, <<>> >> ]

FallbackDoc ==
    [ h1 |-> None, og_title |-> None, twitter_title |-> None,
      title |-> Some(<<"B", " ", EMDASH, " ", "S">>), images |-> <<>>,
      extracted |-> None, article_elem |-> Some([text |-> <<"B", " ", "p">>]),
      dates |-> << <<>>, <<DateTag(Some(DateString(20, None)), FALSE)>>, <<>>,
                   <<DateTag(Some(DateString(40, None)), TRUE)>> >> ]

\* The documents each article URL may serve, by the last token of the URL.
Served(url) ==
    LET slug == url[Len(url)]
    IN  CASE slug = get_known_articles[1][Len(get_known_articles[1])]
               -> {ImageDoc}
          [] slug = get_known_articles[2][Len(get_known_articles[2])]
               -> {EmptyDoc}
          [] slug = get_known_articles[3][Len(get_known_articles[3])]
               -> {FallbackDoc}
          [] slug = get_known_articles[4][Len(get_known_articles[4])]
               -> {ImageDoc, EmptyDoc}
          [] slug = get_known_articles[5][Len(get_known_articles[5])]
               -> {EmptyDoc, FallbackDoc}
          [] slug = get_known_articles[6][Len(get_known_articles[6])]
               -> {FallbackDoc}
          [] slug = get_known_articles[7][Len(get_known_articles[7])]
               -> {EmptyDoc}
          [] OTHER -> {EmptyDoc, ImageDoc, FallbackDoc}

Init ==
    /\ pc = "start" /\ found = {} /\ fallback = FALSE /\ urls = <<>>
    /\ pos = 0 /\ log = <<>> /\ items = <<>> /\ feed = None /\ builds = 0
    /\ arg = None /\ res = None

\* lines 415-424
MainDiscover ==
    /\ pc = "start"
    /\ \E pages \in MainWebs :
         LET listed == list_articles_from_categories(pages)
         IN  /\ found' = listed
             /\ fallback' = (listed = {})
             /\ \E order \in Orderings(listed) :
                    urls' = Take(UrlsOrKnown(order), ItemCap)
    /\ pc' = "loop"
    /\ UNCHANGED <<pos, log, items, feed, builds, arg, res>>

\* lines 429-439: one iteration of the loop
MainExtract ==
    /\ pc = "loop" /\ pos < Len(urls)
    /\ \E fetched \in {TransportError}
                        \cup { Fetched(d) : d \in Served(urls[pos + 1]) } :
         LET url == urls[pos + 1]
             result == extract_article(url, fetched, Now(pos))
         IN  /\ log' = Append(log, [url |-> url, fetched |-> fetched])
             /\ IF result.raised
                \* an exception that leaves extract_article ends main
                THEN pc' = "crashed" /\ UNCHANGED <<items, pos>>
                ELSE /\ items' = IF Usable(result.article)
                                 THEN Append(items, The(result.article))
                                 ELSE items
                     /\ pos' = pos + 1
                     /\ pc' = pc
    /\ UNCHANGED <<found, fallback, urls, feed, builds, arg, res>>

\* lines 441-443
MainNoItems ==
    /\ pc = "loop" /\ pos = Len(urls) /\ NothingToPublish(items)
    /\ pc' = "done"
    /\ UNCHANGED <<found, fallback, urls, pos, log, items, feed, builds, arg, res>>

\* lines 445-450
MainBuild ==
    /\ pc = "loop" /\ pos = Len(urls) /\ ~NothingToPublish(items)
    /\ items' = SortNewestFirst(items)
    /\ \E probes \in Probes(items') : feed' = Some(build_feed(items', probes))
    /\ builds' = builds + 1
    /\ pc' = "done"
    /\ UNCHANGED <<found, fallback, urls, pos, log, arg, res>>

Next == MainDiscover \/ MainExtract \/ MainNoItems \/ MainBuild

Spec == Init /\ [][Next]_vars

\* the entries of the written document
Entries == The(feed).entries

\* a document with no title candidate and no body text
Hollow(doc) ==
    /\ \A k \in 1..4 : TitleCandidates(doc)[k] = <<>>
    /\ ExtractBody(doc) = <<>>

\* C1: a URL whose document gives the placeholder title and no body text is
\* not appended to items and is not in the feed.
C1_HollowArticleDropped ==
    \A k \in DOMAIN log :
        (log[k].fetched.ok /\ Hollow(The(log[k].fetched.doc)))
        => /\ \A n \in DOMAIN items : items[n].link # log[k].url
           /\ feed # None => \A n \in DOMAIN Entries : Entries[n].link # log[k].url

\* C2: the entries of the written document are in non-increasing order of
\* pubDate.
C2_NewestFirst ==
    feed # None =>
        \A j, k \in DOMAIN Entries :
            j < k => Entries[j].pubDate >= Entries[k].pubDate

\* C4: when the categories yield no URL main processes exactly the static
\* list, the list handed to the loop is never empty, and the static list is
\* taken only then.
C4_KnownArticlesIffNothingListed ==
    pc # "start" =>
        /\ urls # <<>>
        /\ found = {} => (fallback /\ urls = get_known_articles)
        /\ found # {} => (~fallback /\ { urls[k] : k \in DOMAIN urls } = found)
        /\ \A k \in DOMAIN log : log[k].url = urls[k]
        /\ pc = "done" => Len(log) = Len(urls)

\* the static list was processed to the end after a run of the discovery
\* that listed nothing
C4_Witness ==
    /\ pc = "done" /\ fallback /\ found = {}
    /\ Len(log) = Len(get_known_articles) /\ items # <<>>

\* C5: a transport failure at one URL, or at the HEAD request of one item,
\* stops nothing: main does not end on an exception, the URLs are attempted
\* in order to the last, every URL whose extraction gave a usable article is
\* in items, and the items are all in the document that is written.
C5_FailureIsLocal ==
    /\ pc # "crashed"
    /\ \A k \in DOMAIN log : log[k].url = urls[k]
    /\ pc = "done" => Len(log) = Len(urls)
    /\ \A k \in DOMAIN log :
          Usable(extract_article(log[k].url, log[k].fetched, Now(k - 1)).article)
          => \E n \in DOMAIN items : items[n].link = log[k].url
    /\ (pc = "done" /\ items # <<>>) =>
          /\ feed # None
          /\ Len(Entries) = Len(items)
          /\ \A n \in DOMAIN items :
                \E e \in DOMAIN Entries : Entries[e].link = items[n].link

\* a fetch failed before the last URL, a later URL was extracted, and the
\* HEAD request of an item raised while the document was built
C5_Witness ==
    /\ pc = "done" /\ feed # None
    /\ \E j, k \in DOMAIN log :
          j < k /\ ~log[j].fetched.ok /\ log[k].fetched.ok
    /\ \E n \in DOMAIN items : The(feed).probes[n] = "raised"
    /\ Len(items) >= 2

\* C6: a run that ends the loop without a usable article writes nothing, and
\* build_feed is called at most once, with a list of items that is not empty.
C6_NoItemsNoFeed ==
    /\ builds <= 1
    /\ (pc = "done" /\ items = <<>>) => (feed = None /\ builds = 0)
    /\ builds = 1 => (feed # None /\ items # <<>> /\ Entries # <<>>)
    /\ feed # None => builds = 1

\* every fetch of the run failed, and main returned
C6_Witness ==
    /\ pc = "done" /\ items = <<>> /\ Len(log) = Len(get_known_articles)
    /\ \A k \in DOMAIN log : ~log[k].fetched.ok

----------------------------------------------------------------------------
(* The feed assembly under test: build_feed on one item *)

\* the contents of the fixture items are at most MaxShort characters long, or
\* at most MaxMargin characters away from the cap
MaxShort == 12

MaxMargin == 1

Fill(c, n) == [k \in 1..n |-> c]

ContentLengths ==
    (0..MaxShort)
    \cup ((DescriptionCap - MaxMargin)..(DescriptionCap + MaxMargin))

\* plain text, text of characters that html.escape expands, and text with a
\* line break element at its head or at its end
FixtureContent(shape, n) ==
    CASE shape = "plain" -> Fill("x", n)
      [] shape = "ampersands" -> Fill("&", n)
      [] shape = "br first" -> <<"<", "b", "r", ">">> \o Fill("x", n - 4)
      [] shape = "br last" -> Fill("x", n - 4) \o <<"<", "b", "r", ">">>

FixtureImages ==
    { <<>>, << [url |-> <<"h", "t", "t", "p", ":", "/", "/", "i", "/", "a">>,
                alt |-> <<"I", "m", "m", "a", "g", "i", "n", "e", " ", "a", "r", "t", "i", "c",
        "o", "l", "o">>] >> }

\* arg names the item: the shape and the length of its content, its images
FeedInputs ==
    { a \in [ shape : {"plain", "ampersands", "br first", "br last"},
              n : ContentLengths, images : FixtureImages ] :
        a.shape \in {"br first", "br last"} => a.n >= 4 }

FixtureItem(a) ==
    [ title |-> <<"H">>, link |-> get_known_articles[1],
      content |-> FixtureContent(a.shape, a.n), pub_dt |-> 8,
      images |-> a.images ]

\* what the claims read in a written document: per entry the length of the
\* description, whether it was wrapped in a paragraph, and the enclosure
Observed(document) ==
    [ entries |->
        [ k \in DOMAIN document.entries |->
            [ link |-> document.entries[k].link,
              length |-> Len(document.entries[k].description),
              wrapped |-> StartsWith(document.entries[k].description,
                                     <<"<", "p", ">">>),
              enclosure |-> document.entries[k].enclosure ] ],
      probes |-> document.probes ]

InitFeed ==
    /\ Idle
    /\ arg \in FeedInputs
    /\ res = None

ApplyBuildFeed ==
    /\ res = None
    /\ \E probes \in Probes(<<FixtureItem(arg)>>) :
         res' = Some(Observed(build_feed(<<FixtureItem(arg)>>, probes)))
    /\ UNCHANGED <<mainVars, arg>>

SpecFeed == InitFeed /\ [][ApplyBuildFeed]_vars

\* C8: the description of an entry is never longer than the cap of 50000
\* characters, whatever the content of the item and whichever branch sets it.
C8_DescriptionWithinCap ==
    res # None =>
        \A k \in DOMAIN The(res).entries :
            The(res).entries[k].length <= DescriptionCap

----------------------------------------------------------------------------
(* The sanitizer under test: sanitize_xml applied twice to one input *)

\* the longest input of the sanitizer specification, in fragments
MaxFrags == 3

SanFragments ==
    { <<"&">>, <<"a", "m", "p">>, <<";">>, <<" ">>, <<CTRL>>,
      <<"&", "a", "m", "p", ";">> }

SanInputs ==
    { Flatten(fs) : fs \in UNION { [1..n -> SanFragments] : n \in 0..MaxFrags } }

InitSanitize ==
    /\ Idle
    /\ arg \in SanInputs
    /\ res = <<>>

\* res holds sanitize_xml(arg), then sanitize_xml(sanitize_xml(arg))
ApplySanitize ==
    /\ Len(res) < 2
    /\ res' = Append(res, sanitize_xml(IF res = <<>> THEN arg ELSE res[Len(res)]))
    /\ UNCHANGED <<mainVars, arg>>

SpecSanitize == InitSanitize /\ [][ApplySanitize]_vars

\* C7 as stated: sanitize_xml(sanitize_xml(x)) = sanitize_xml(x) for every
\* input x, character references that decode to a reference included.
C7_Idempotent == Len(res) = 2 => res[2] = res[1]

\* C7 amended: a second application changes nothing when the first result
\* holds no character reference that html.unescape would still decode.
C7_IdempotentWithoutReference ==
    (Len(res) = 2 /\ Unescape(res[1]) = res[1]) => res[2] = res[1]

\* an input with a reference, an invalid character and white space, sanitized
\* twice, whose first result keeps the decoded ampersand and has nothing left
\* to decode
C7_Witness ==
    /\ Len(res) = 2
    /\ Contains(arg, <<"&", "a", "m", "p", ";">>) /\ Contains(arg, <<CTRL>>)
    /\ arg # res[1]
    /\ Contains(res[1], <<"&">>) /\ Unescape(res[1]) = res[1]

=============================================================================
